---- MODULE Spec2Model ----
(***************************************************************************)
(* min_path_cost (src/src/lib.rs): the least cost path through a layered   *)
(* graph, computed by one forward sweep over the rows that relaxes every   *)
(* edge of every accessible node.                                          *)
(*                                                                         *)
(* A node is a natural number standing for one Rc<RefCell<Node>>: two      *)
(* entries of the input holding the same number are clones of the same Rc. *)
(* An Option<usize> is a sequence: <<>> is None and <<v>> is Some(v).      *)
(* usize is WordBits wide.                                                 *)
(***************************************************************************)
EXTENDS Integers, Sequences, FiniteSets, TLC

\* ------------------------------------------------------------- bounds
\* Nodes of a graph, rows of an input, nodes of one row, edges of one node,
\* bits of a usize, calls of min_path_cost on one graph.  The length of a Vec
\* fits a usize: MaxRows < 2 ^ WordBits.
MaxNodes == 4
MaxRows == 3
MaxCols == 2
MaxEdges == 2
WordBits == 2
MaxCalls == 2

\* ------------------------------------------------------------- usize, Option
Modulus == 2 ^ WordBits

USIZE_MAX == Modulus - 1

Usize == 0 .. USIZE_MAX

None == << >>

Some(v) == << v >>

is_none(o) == o = None

\* Option::unwrap_or
unwrap_or(o, default) == IF o = None THEN default ELSE o[1]

\* ------------------------------------------------------------- the graph
VARIABLES
    input,            \* Vec<Vec<NodePointer>>: the rows, each a sequence of nodes
    edges,            \* Node::edges of every node: a sequence of Edge records
    maybe_min_path,   \* Node::maybe_min_path of every node
    overflow_checks,  \* the build: "on" panics on integer overflow, "off" wraps;
                      \* "unobserved" until the first overflow shows which it is
    \* ---------------------------------------------------------- one call
    pc,               \* "idle", "nodes", "edges", "returned", "panicked"
    calls,            \* calls of min_path_cost made on this graph so far
    final_min_path,   \* the local of line 45
    last_row,         \* the local of line 46
    row_idx,          \* enumerate() index of the row being swept (0-based)
    col,              \* position in that row of the node being visited (1-based)
    edge_idx,         \* position in node.edges of the edge being relaxed (1-based)
    result,           \* what the call returned
    \* ---------------------------------------------------------- history
    first_result,     \* what the first call returned (<<"none">> before that)
    visits,           \* this call: the <<row_idx, col, accessible>> of each visit
    relaxed,          \* this call: the <<row_idx, col, edge_idx>> of each relaxation
    writes            \* this call: assignments made to a maybe_min_path

graph == << input, edges >>

locals == << final_min_path, last_row, row_idx, col, edge_idx >>

history == << first_result, visits, relaxed, writes >>

vars == << graph, maybe_min_path, overflow_checks, pc, calls, locals, result, history >>

Edge(weight, destination) == [weight |-> weight, destination |-> destination]

SeqsUpTo(S, k) == UNION { [1 .. m -> S] : m \in 0 .. k }

RECURSIVE Sum(_)
Sum(s) == IF s = << >> THEN 0 ELSE Head(s) + Sum(Tail(s))

\* Every way to pick, for k = 1 .. n, one element of opts[k].
RECURSIVE Choices(_, _)
Choices(opts, n) ==
    IF n = 0 THEN { << >> }
    ELSE { Append(f, x) : f \in Choices(opts, n - 1), x \in opts[n] }

\* The nodes of row r (0-based), as a set.
RowNodes(in, r) == IF r \in 0 .. Len(in) - 1
                   THEN { in[r + 1][c] : c \in 1 .. Len(in[r + 1]) }
                   ELSE {}

\* The rows (0-based) a node is listed in.
RowsOfNode(in, n) == { r \in 0 .. Len(in) - 1 : n \in RowNodes(in, r) }

\* ------------------------------------------------------------- well-formed inputs
\* Row widths: at least one row, at most MaxNodes nodes in all.
Shapes == { s \in UNION { [1 .. r -> 1 .. MaxCols] : r \in 1 .. MaxRows } :
              Sum(s) <= MaxNodes }

\* The rows of a shape: nodes 1, 2, ... row by row, each node listed once.
RowsOfShape(s) ==
    [r \in 1 .. Len(s) |->
        [c \in 1 .. s[r] |-> Sum(SubSeq(s, 1, r - 1)) + c]]

\* The edge lists a node of row r may carry: every edge leads to the next row.
NextRowEdges(in, r) ==
    SeqsUpTo({ Edge(w, d) : w \in Usize, d \in RowNodes(in, r + 1) }, MaxEdges)

WellFormedEdges(in) ==
    LET n == Sum([r \in 1 .. Len(in) |-> Len(in[r])])
        rowOf(k) == CHOOSE r \in 0 .. Len(in) - 1 : k \in RowNodes(in, r)
    IN  Choices([k \in 1 .. n |-> NextRowEdges(in, rowOf(k))], n)

\* "Assumes inputs are validated": at least one row, no node listed twice,
\* every edge from row i to row i + 1.
WellFormed ==
    /\ Len(input) >= 1
    /\ \A n \in DOMAIN edges :
          /\ Cardinality(RowsOfNode(input, n)) <= 1
          /\ \A r \in 0 .. Len(input) - 1 :
                Cardinality({ c \in 1 .. Len(input[r + 1]) : input[r + 1][c] = n }) <= 1
          /\ \A k \in 1 .. Len(edges[n]) :
                /\ RowsOfNode(input, n) # {}
                /\ \E r \in RowsOfNode(input, n) :
                      edges[n][k].destination \in RowNodes(input, r + 1)

\* ------------------------------------------------------------- any input
\* Inputs the type admits and validation would reject: no row at all, a node
\* listed in several rows or several times, an edge to any node whatever.
AnyNodes == MaxNodes - 1

AnyEdges == MaxEdges - 1

AnyRows ==
    { in \in SeqsUpTo(SeqsUpTo(1 .. AnyNodes, MaxCols) \ { << >> }, MaxRows) :
        Sum([r \in 1 .. Len(in) |-> Len(in[r])]) <= AnyNodes }

AnyEdgeLists ==
    [1 .. AnyNodes ->
        SeqsUpTo({ Edge(w, d) : w \in Usize, d \in 1 .. AnyNodes }, AnyEdges)]

\* ------------------------------------------------------------- Init
\* Node::new: maybe_min_path is None; nothing has been called yet.
Fresh ==
    /\ maybe_min_path = [n \in DOMAIN edges |-> None]
    /\ overflow_checks = "unobserved"
    /\ pc = "idle"
    /\ calls = 0
    /\ final_min_path = None
    /\ last_row = 0
    /\ row_idx = 0
    /\ col = 1
    /\ edge_idx = 1
    /\ result = None
    /\ first_result = << "none" >>
    /\ visits = << >>
    /\ relaxed = << >>
    /\ writes = 0

Init ==
    /\ \E s \in Shapes : input = RowsOfShape(s)
    /\ edges \in WellFormedEdges(input)
    /\ Fresh

InitAny ==
    /\ input \in AnyRows
    /\ edges \in AnyEdgeLists
    /\ Fresh

\* ------------------------------------------------------------- the sweep
\* The <<row_idx, col>> of every node of the input, in the order of the loops.
Positions ==
    UNION { { << r, c >> : c \in 1 .. Len(input[r + 1]) } : r \in 0 .. Len(input) - 1 }

IsPosition(r, c) == << r, c >> \in Positions

Before(p, q) == p[1] < q[1] \/ (p[1] = q[1] /\ p[2] < q[2])

\* The position of the for loops after <<r, c>>: the next node of the row, or
\* the first node of a later row, or <<Len(input), 1>> when the rows are
\* exhausted.
After(r, c) ==
    LET later == { p \in Positions : Before(<< r, c >>, p) }
    IN  IF later = {} THEN << Len(input), 1 >>
        ELSE CHOOSE p \in later : \A q \in later : p = q \/ Before(p, q)

\* The node being visited.
node == input[row_idx + 1][col]

\* Line 46 with the subtraction left out.
LastRowMut(len) == len

\* Line 46, before the difference is brought into usize.
LastRow(len) == len - 1

\* Line 51 with the exemption of row 0 left out.
InaccessibleMut(r, n) == is_none(maybe_min_path[n])

\* Line 51: the nodes the sweep skips.
Inaccessible(r, n) == r # 0 /\ is_none(maybe_min_path[n])

\* Lines 57-59: the fold of one last-row node into final_min_path.
Fold(acc, min_path) ==
    IF unwrap_or(acc, USIZE_MAX) > min_path THEN Some(min_path) ELSE acc

\* Lines 64-73: the cost of reaching the edge's destination through node n of
\* row r, before the sum is brought into usize; None is the continue of line 72.
weight_to_dest(r, n, edge) ==
    IF r = 0 THEN Some(edge.weight)
    ELSE IF maybe_min_path[n] # None THEN Some(edge.weight + maybe_min_path[n][1])
    ELSE None

\* Lines 77-81 with the comparison left out: every candidate is assigned.
RelaxWritesAlways(dest_min_path, weight) == TRUE

\* Lines 77-81 with >= for >: a candidate equal to the value is assigned.
RelaxWritesOnTie(dest_min_path, weight) ==
    \/ dest_min_path = None
    \/ dest_min_path[1] >= weight

\* Lines 77-81: whether the match assigns.
RelaxWrites(dest_min_path, weight) ==
    \/ dest_min_path = None
    \/ dest_min_path[1] > weight

\* Lines 77-83: the destination's maybe_min_path after the match.
Relax(dest_min_path, weight) ==
    IF RelaxWrites(dest_min_path, weight) THEN Some(weight) ELSE dest_min_path

\* Leaving the body of the node loop: on to the next node, or out of the loops.
Continue ==
    LET p == After(row_idx, col)
    IN  /\ row_idx' = p[1]
        /\ col' = p[2]
        /\ edge_idx' = 1
        /\ pc' = "nodes"

Panic ==
    /\ pc' = "panicked"
    /\ UNCHANGED << row_idx, col, edge_idx >>

\* The builds an overflow may turn out to be running under.
Builds == IF overflow_checks = "unobserved" THEN { "on", "off" }
          ELSE { overflow_checks }

\* Lines 44-46, up to the head of the row loop.  input.len() - 1 underflows on
\* an input without rows: a panic with overflow checks, USIZE_MAX without.
Enter ==
    /\ calls' = calls + 1
    /\ final_min_path' = None
    /\ visits' = << >>
    /\ relaxed' = << >>
    /\ writes' = 0
    /\ \E oc \in (IF LastRow(Len(input)) < 0 THEN Builds ELSE { overflow_checks }) :
          /\ overflow_checks' = oc
          /\ IF LastRow(Len(input)) < 0 /\ oc = "on"
             THEN /\ pc' = "panicked"
                  /\ UNCHANGED << last_row, row_idx, col, edge_idx >>
             ELSE /\ last_row' = LastRow(Len(input)) % Modulus
                  /\ LET p == After(0, 0)
                     IN  row_idx' = p[1] /\ col' = p[2]
                  /\ edge_idx' = 1
                  /\ pc' = "nodes"
    /\ UNCHANGED << graph, maybe_min_path, result, first_result >>

\* The first call, on freshly constructed nodes.
Call ==
    /\ pc = "idle"
    /\ Enter

\* A further call on the same rows of the same nodes, nothing reset.
CallAgain ==
    /\ pc = "returned"
    /\ calls < MaxCalls
    /\ Enter

\* Lines 49-62: one node of the row, up to its first edge.
VisitNode ==
    /\ pc = "nodes"
    /\ IsPosition(row_idx, col)
    /\ visits' = Append(visits, << row_idx, col, ~ Inaccessible(row_idx, node) >>)
    /\ IF Inaccessible(row_idx, node)
       THEN \* line 53
            /\ Continue
            /\ UNCHANGED final_min_path
       ELSE IF row_idx = last_row
       THEN \* lines 56-60
            /\ final_min_path' = IF maybe_min_path[node] = None THEN final_min_path
                                 ELSE Fold(final_min_path, maybe_min_path[node][1])
            /\ Continue
       ELSE \* line 63
            /\ IF edges[node] = << >>
               THEN Continue
               ELSE /\ pc' = "edges"
                    /\ edge_idx' = 1
                    /\ UNCHANGED << row_idx, col >>
            /\ UNCHANGED final_min_path
    /\ UNCHANGED << graph, maybe_min_path, overflow_checks, calls, last_row,
                    result, first_result, relaxed, writes >>

\* Lines 63-84: one edge of the node being visited, which is mutably borrowed
\* (line 50) while its edges are walked.
RelaxEdge ==
    /\ pc = "edges"
    /\ LET edge == edges[node][edge_idx]
           sum == weight_to_dest(row_idx, node, edge)
           dest == edge.destination
           next == IF edge_idx < Len(edges[node])
                   THEN /\ edge_idx' = edge_idx + 1
                        /\ UNCHANGED << pc, row_idx, col >>
                   ELSE Continue
       IN  IF sum = None
           THEN \* line 72
                /\ next
                /\ UNCHANGED << maybe_min_path, overflow_checks, relaxed, writes >>
           ELSE \E oc \in (IF sum[1] > USIZE_MAX THEN Builds ELSE { overflow_checks }) :
                /\ overflow_checks' = oc
                /\ IF sum[1] > USIZE_MAX /\ oc = "on"
                   THEN \* line 68: attempt to add with overflow
                        /\ Panic
                        /\ UNCHANGED << maybe_min_path, relaxed, writes >>
                   ELSE IF dest = node
                   THEN \* line 76: already mutably borrowed
                        /\ Panic
                        /\ UNCHANGED << maybe_min_path, relaxed, writes >>
                   ELSE /\ maybe_min_path' =
                              [maybe_min_path EXCEPT
                                  ![dest] = Relax(maybe_min_path[dest],
                                                  sum[1] % Modulus)]
                        /\ writes' =
                              IF RelaxWrites(maybe_min_path[dest], sum[1] % Modulus)
                              THEN writes + 1 ELSE writes
                        /\ relaxed' = Append(relaxed, << row_idx, col, edge_idx >>)
                        /\ next
    /\ UNCHANGED << graph, calls, final_min_path, last_row, result,
                    first_result, visits >>

\* Line 89.
Return ==
    /\ pc = "nodes"
    /\ ~ IsPosition(row_idx, col)
    /\ pc' = "returned"
    /\ result' = final_min_path
    /\ first_result' = IF calls = 1 THEN final_min_path ELSE first_result
    /\ UNCHANGED << graph, maybe_min_path, overflow_checks, calls, locals,
                    visits, relaxed, writes >>

Next == Call \/ VisitNode \/ RelaxEdge \/ Return

NextTwice == Call \/ CallAgain \/ VisitNode \/ RelaxEdge \/ Return

\* One call on a validated input; calls on one validated input; one call on
\* any input.
Spec == Init /\ [][Next]_vars

SpecTwice == Init /\ [][NextTwice]_vars

SpecAny == InitAny /\ [][Next]_vars

\* ------------------------------------------------------------- what is true of the graph
Min(S) == CHOOSE x \in S : \A y \in S : x <= y

\* The row of a node of a validated input.
RowOf(n) == CHOOSE r \in 0 .. Len(input) - 1 : n \in RowNodes(input, r)

\* The total weights, as integers, of the paths of one edge or more that lead
\* from a node of row 0 to node n of row r, by enumeration of the paths.
RECURSIVE PathCosts(_, _)
PathCosts(r, n) ==
    IF r = 0 THEN {}
    ELSE UNION { UNION { { edges[m][k].weight + c :
                             c \in IF r = 1 THEN { 0 } ELSE PathCosts(r - 1, m) } :
                         k \in { j \in 1 .. Len(edges[m]) :
                                   edges[m][j].destination = n } } :
                 m \in RowNodes(input, r - 1) }

\* The total weights of the paths from row 0 to the last row.
TerminalCosts ==
    UNION { PathCosts(Len(input) - 1, n) : n \in RowNodes(input, Len(input) - 1) }

\* The least weight of a path to node n of row r; None without a path.
Shortest(r, n) ==
    IF PathCosts(r, n) = {} THEN None ELSE Some(Min(PathCosts(r, n)))

\* The nodes that have a maybe_min_path.
Present == { n \in DOMAIN maybe_min_path : maybe_min_path[n] # None }

\* ------------------------------------------------------------- claims
\* C1: on a validated input the call returns the least total weight of the
\* paths from row 0 to the last row, and None exactly when there is no path.
C1_ExactMinimum ==
    pc = "returned" =>
        /\ (result = None) <=> (TerminalCosts = {})
        /\ TerminalCosts # {} => result = Some(Min(TerminalCosts))

\* C2: a call on an input of one row of fresh nodes, whatever their number and
\* their edges, does not panic, relaxes no edge, writes no maybe_min_path and
\* returns None.
C2_SingleRowAbsent ==
    (Len(input) = 1 /\ pc # "idle") =>
        /\ pc \in { "nodes", "returned" }
        /\ relaxed = << >>
        /\ writes = 0
        /\ Present = {}
        /\ pc = "returned" => result = None

\* A call has returned on one row of MaxCols nodes, one of them with an edge.
C2_Witness ==
    /\ Len(input) = 1
    /\ pc = "returned"
    /\ Len(input[1]) = MaxCols
    /\ Len(visits) = MaxCols
    /\ \E c \in 1 .. Len(input[1]) : edges[input[1][c]] # << >>

\* C3: a second call on the rows of an already swept validated graph, nothing
\* reset, changes no maybe_min_path and returns what the first call returned.
C3_Idempotent ==
    /\ [](calls >= 2 /\ pc = "returned" => result = first_result)
    /\ [][calls' >= 2 => maybe_min_path' = maybe_min_path]_vars

\* A second call has returned a cost after relaxing edges of two rows.
C3_Witness ==
    /\ calls = 2
    /\ pc = "returned"
    /\ result # None
    /\ Len(relaxed) >= 3
    /\ Cardinality(Present) >= 2

\* C4: the call panics on no input, validated or not.
C4_NeverPanics == pc # "panicked"

\* C5: on a validated input no sum edge.weight + src_min_path overflows, and
\* the call does not fail.
C5_NoOverflow ==
    /\ pc # "panicked"
    /\ pc = "edges" =>
          LET sum == weight_to_dest(row_idx, node, edges[node][edge_idx])
          IN  sum # None => sum[1] <= USIZE_MAX

\* C6: the call returns the least maybe_min_path of the last-row nodes that
\* have one, USIZE_MAX included, None exactly when none has one, and relaxes
\* no edge of a last-row node.
C6_TerminalFold ==
    /\ \A i \in 1 .. Len(relaxed) : relaxed[i][1] # Len(input) - 1
    /\ pc = "returned" =>
          LET found == { maybe_min_path[n][1] :
                           n \in RowNodes(input, Len(input) - 1) \cap Present }
          IN  result = IF found = {} THEN None ELSE Some(Min(found))

\* C7: on a validated input, from the moment the sweep starts on row i >= 1,
\* every node of row i holds the least weight of a path from row 0 to it,
\* None if there is no path.
C7_Finalized ==
    pc \in { "nodes", "edges", "returned" } =>
        \A r \in 1 .. Len(input) - 1 :
            r <= row_idx =>
                \A n \in RowNodes(input, r) : maybe_min_path[n] = Shortest(r, n)

\* C8: in every step each maybe_min_path stays as it is, goes from None to
\* Some, or is replaced by a strictly smaller value; an assignment always
\* changes the value, so a candidate equal to the value is not assigned.
C8_Monotone ==
    [][ /\ \A n \in DOMAIN maybe_min_path :
              \/ maybe_min_path'[n] = maybe_min_path[n]
              \/ maybe_min_path[n] = None /\ maybe_min_path'[n] # None
              \/ /\ maybe_min_path[n] # None
                 /\ maybe_min_path'[n] # None
                 /\ maybe_min_path'[n][1] < maybe_min_path[n][1]
        /\ writes' > writes => maybe_min_path' # maybe_min_path ]_vars

\* A node was lowered after it was first set, and a relaxation assigned nothing.
C8_Witness ==
    /\ pc = "returned"
    /\ writes > Cardinality(Present)
    /\ Len(relaxed) > writes

\* C9: after the call has returned on a validated input, the nodes that have
\* a maybe_min_path are the nodes of rows >= 1 that end a path from row 0; no
\* edge of a node without such a path was relaxed outside row 0; no edge list
\* has changed.
C9_ReachabilityFrame ==
    /\ [](pc = "returned" =>
            /\ \A n \in DOMAIN maybe_min_path :
                  (n \in Present) <=>
                      (RowOf(n) >= 1 /\ PathCosts(RowOf(n), n) # {})
            /\ \A i \in 1 .. Len(relaxed) :
                  \/ relaxed[i][1] = 0
                  \/ PathCosts(relaxed[i][1],
                               input[relaxed[i][1] + 1][relaxed[i][2]]) # {})
    /\ [][edges' = edges]_vars

\* A middle-row node without a path from row 0 has an edge into the last row,
\* beside a node that has a path.
C9_Witness ==
    /\ pc = "returned"
    /\ Len(input) = 3
    /\ result # None
    /\ \E n \in RowNodes(input, 1) :
          /\ PathCosts(1, n) = {}
          /\ edges[n] # << >>

\* C10: on a validated input the call returns; it has then visited every node
\* once, in the order of the rows, and relaxed once every edge of every node
\* of a row before the last that was in row 0 or had a maybe_min_path when
\* visited; no edge is relaxed twice.
C10_SinglePass ==
    /\ pc # "panicked"
    /\ \A i, j \in 1 .. Len(relaxed) : i # j => relaxed[i] # relaxed[j]
    /\ \A i, j \in 1 .. Len(visits) :
          i < j => Before(<< visits[i][1], visits[i][2] >>,
                          << visits[j][1], visits[j][2] >>)
    /\ pc = "returned" =>
          /\ { << visits[i][1], visits[i][2] >> : i \in 1 .. Len(visits) } = Positions
          /\ \A i \in 1 .. Len(visits) :
                (visits[i][1] < Len(input) - 1 /\ visits[i][3]) =>
                    \A k \in 1 .. Len(edges[input[visits[i][1] + 1][visits[i][2]]]) :
                        \E j \in 1 .. Len(relaxed) :
                            relaxed[j] = << visits[i][1], visits[i][2], k >>

====
